---- MODULE Spec2Model ----
(***************************************************************************)
(* A model of the StackExchange search workflow of                         *)
(* src/src/stackexchange_search/so.py (src/src/so.py is the older copy of  *)
(* the same program): query parsing, cache-key derivation, the on-disk     *)
(* answers cache, the search pipeline do_search, and the sites catalog     *)
(* (do_cache_sites, do_sites).                                             *)
(*                                                                         *)
(* Python strings are modelled as sequences of one-character strings, so   *)
(* that strip, partition, split and join are computed as the code computes *)
(* them.                                                                   *)
(*                                                                         *)
(* Specifications:                                                         *)
(*   Spec       search invocations one after the other, with a clock       *)
(*   SpecConc   two overlapping search invocations on the same cache file  *)
(*   SpecParse  parse_search_query on enumerated argument strings          *)
(*   SpecKey    get_answers_cache on enumerated pairs of argument triples  *)
(*   SpecSites  cache_sites and sites invocations one after the other      *)
(*   SpecSitesClock  the same with a clock and a short listing             *)
(*   SpecActions  search, sites and cache_sites invocations in turn        *)
(*   SpecRefresh  search invocations, or cache_sites invocations, with a   *)
(*                clock                                                    *)
(***************************************************************************)
EXTENDS Integers, Sequences, FiniteSets, TLC

VARIABLES
    now,      \* time.time(), in whole seconds
    files,    \* the answers cache directory: path -> file (exists, mtime, bytes)
    stored,   \* history: per search, when an invocation of it last stored its results
    proc,     \* one record per invocation process of `so.py search`
    raw,      \* parse_search_query: the argument string
    parsed,   \* parse_search_query: <<the returned tuple>>, <<>> before the call
    key_in,   \* get_answers_cache: two argument triples (site_id, query, tags)
    key_out,  \* get_answers_cache: what it computed for the two triples, <<>> before
    sites_file,  \* cachedir/all_sites.json (exists, mtime, bytes)
    icons,    \* the site ids that have a file in the icons directory
    csproc,   \* the invocation process of `so.py cache_sites`
    siteproc  \* the invocation process of `so.py sites`

sitesVars == <<sites_file, icons, csproc, siteproc>>

vars == <<now, files, stored, proc, raw, parsed, key_in, key_out, sitesVars>>

\* The state of the sites catalog before anything ran: no cache file, no icon,
\* no `cache_sites` and no `sites` invocation under way.
IdleCacheSites ==
    [pc |-> "idle", page |-> 0, has_more |-> FALSE, sites |-> <<>>,
     requests |-> <<>>, pages |-> <<>>, pre_ids |-> {},
     wbuf |-> <<>>, wpos |-> 0, icon_idx |-> 0, outcome |-> "none"]

IdleSites ==
    [pc |-> "idle", query |-> <<>>, ignore_meta_sites |-> FALSE,
     existed |-> FALSE, age |-> 0, loaded |-> <<>>, sites |-> <<>>,
     ncalls |-> 0, nfzf |-> 0,
     fzf |-> [kind |-> "none", candidates |-> <<>>, lines |-> <<>>],
     out |-> <<>>, outcome |-> "none"]

InitSitesVars ==
    /\ sites_file = [exists |-> FALSE, mtime |-> 0, bytes |-> <<>>]
    /\ icons = {}
    /\ csproc = IdleCacheSites
    /\ siteproc = IdleSites

(***************************************************************************)
(* Bounds of the model.                                                    *)
(***************************************************************************)
MaxRawLen == 4      \* longest enumerated argument string of parse_search_query
MaxQueryLen == 2    \* longest enumerated query of get_answers_cache
MaxTagLen == 1      \* longest enumerated tag of get_answers_cache
MaxTags == 2        \* most tags enumerated for get_answers_cache

(***************************************************************************)
(* Strings.                                                                *)
(***************************************************************************)
\* The characters str.strip() and str.split() treat as whitespace.
Whitespace == {" ", "\t", "\n"}

\* All sequences over S of length at most n.
SeqsUpTo(S, n) == UNION {[1..k -> S] : k \in 0..n}

RECURSIVE LStrip(_)
LStrip(s) ==
    IF s /= <<>> /\ Head(s) \in Whitespace THEN LStrip(Tail(s)) ELSE s

RECURSIVE RStrip(_)
RStrip(s) ==
    IF s /= <<>> /\ s[Len(s)] \in Whitespace
    THEN RStrip(SubSeq(s, 1, Len(s) - 1))
    ELSE s

\* str.strip()
Strip(s) == RStrip(LStrip(s))

\* The position of the last "//", as str.rpartition('//') would split.
FindLastSlashSlash(s) ==
    LET hits == {i \in 1..(Len(s) - 1) : s[i] = "/" /\ s[i + 1] = "/"}
    IN  IF hits = {} THEN 0 ELSE CHOOSE i \in hits : \A j \in hits : j <= i

\* str.find('//') + 1: the position of the first "//", 0 when there is none.
FindSlashSlash(s) ==
    LET hits == {i \in 1..(Len(s) - 1) : s[i] = "/" /\ s[i + 1] = "/"}
    IN  IF hits = {} THEN 0 ELSE CHOOSE i \in hits : \A j \in hits : i <= j

\* str.split(): the maximal runs of non-whitespace characters, in order.
RECURSIVE SplitFrom(_, _, _)
SplitFrom(s, cur, acc) ==
    IF s = <<>>
    THEN IF cur = <<>> THEN acc ELSE Append(acc, cur)
    ELSE IF Head(s) \in Whitespace
         THEN SplitFrom(Tail(s), <<>>, IF cur = <<>> THEN acc ELSE Append(acc, cur))
         ELSE SplitFrom(Tail(s), Append(cur, Head(s)), acc)

Split(s) == SplitFrom(s, <<>>, <<>>)

\* sep.join(parts)
RECURSIVE Join(_, _)
Join(sep, parts) ==
    IF parts = <<>> THEN <<>>
    ELSE IF Len(parts) = 1 THEN parts[1]
    ELSE parts[1] \o sep \o Join(sep, Tail(parts))

\* [f(x) for x in s]
MapSeq(f(_), s) == [i \in 1..Len(s) |-> f(s[i])]

StartsWithHash(w) == w /= <<>> /\ w[1] = "#"
DropFirst(w) == SubSeq(w, 2, Len(w))

(***************************************************************************)
(* parse_search_query                                                      *)
(***************************************************************************)
\* The three branches that split the argument into (rest, additional_query).
SplitAdditional(string) ==
    LET i == FindSlashSlash(string)
    IN  IF i > 0
        THEN [rest |-> SubSeq(string, 1, i - 1),
              additional_query |-> SubSeq(string, i + 2, Len(string))]
        ELSE IF string /= <<>> /\ string[Len(string)] = "/"
             THEN [rest |-> SubSeq(string, 1, Len(string) - 1),
                   additional_query |-> <<>>]
             ELSE [rest |-> string, additional_query |-> <<>>]

parse_search_query(arg) ==
    LET string == Strip(arg)
        parts == SplitAdditional(string)
        words == Split(parts.rest)
        NotTag(w) == ~StartsWithHash(w)
        query_words == SelectSeq(words, NotTag)
        tags == MapSeq(DropFirst, SelectSeq(words, StartsWithHash))
    IN  [query |-> Join(<<" ">>, query_words),
         tags |-> tags,
         additional_query |-> parts.additional_query]

(***************************************************************************)
(* CacheDirectory.get_answers_cache                                        *)
(***************************************************************************)
KeyLen == 12        \* CacheDirectory.key_len
DigestHexLen == 40  \* the length of hashlib.sha1(...).hexdigest()
DigestModulus == 16 ^ 4

HexDigits == <<"0", "1", "2", "3", "4", "5", "6", "7",
               "8", "9", "a", "b", "c", "d", "e", "f">>

\* str.encode('utf-8') on the characters the model uses (all ASCII: one byte each).
Ord == ("a" :> 97) @@ ("b" :> 98) @@ ("e" :> 101) @@ ("f" :> 102) @@
       ("o" :> 111) @@ ("r" :> 114) @@ ("s" :> 115) @@ ("t" :> 116) @@
       ("x" :> 120) @@ ("z" :> 122) @@ ("_" :> 95) @@ (" " :> 32) @@
       ("#" :> 35) @@ ("/" :> 47) @@ ("\t" :> 9) @@ ("\n" :> 10)

EncodeUtf8(s) == [i \in 1..Len(s) |-> Ord[s[i]]]

\* hashlib.sha1(bytes).hexdigest(): a deterministic digest of DigestHexLen hex
\* digits.  SHA-1 itself is replaced by a small polynomial digest; what the model
\* keeps of it is that the digest is a function of the bytes alone and has a fixed
\* length.  Nothing below relies on which inputs this digest separates.
RECURSIVE DigestFold(_, _)
DigestFold(h, bytes) ==
    IF bytes = <<>> THEN h
    ELSE DigestFold((h * 31 + Head(bytes)) % DigestModulus, Tail(bytes))

HexDigitAt(h, k) == HexDigits[((h \div (16 ^ ((k - 1) % 4))) % 16) + 1]

Sha1Hex(bytes) ==
    LET h == DigestFold(7, bytes)
    IN  [k \in 1..DigestHexLen |-> HexDigitAt(h, k)]

\* The string that get_answers_cache feeds to the digest: '_'.join(sbuf).
DigestInput(site_id, query, tags) == Join(<<"_">>, <<site_id, query>> \o tags)

CacheExt == <<".", "j", "s", "o", "n", ".", "g", "z">>

\* The file name under answers_dir that get_answers_cache returns.
get_answers_cache(site_id, query, tags) ==
    LET h == Sha1Hex(EncodeUtf8(DigestInput(site_id, query, tags)))
    IN  SubSeq(h, 1, KeyLen) \o CacheExt

(***************************************************************************)
(* The remote search API and request_parse_search_api                      *)
(***************************************************************************)
ResultCount == 3    \* env.result_count: the page size asked of the server
CacheMaxAge == 2    \* env.cache_max_age, in seconds
MaxTime == 3        \* the clock stops advancing here
LowQuota == 10      \* do_search warns below this quota
UnlimitedQuota == 9999999   \* the quota do_search assumes after a cache load

SiteId == <<"s", "o">>      \* env.site_id

\* The items the server may return: an unanswered question and two answered
\* ones whose titles coincide once html.unescape has been applied.
I1 == [title |-> "A", link |-> "l1", tags |-> <<"py">>, is_answered |-> FALSE, score |-> 3]
I2 == [title |-> "B &amp; C", link |-> "l2", tags |-> <<>>, is_answered |-> TRUE, score |-> 0]
I3 == [title |-> "B & C", link |-> "l3", tags |-> <<"py">>, is_answered |-> TRUE, score |-> -1]
ServerItems == {I1, I2, I3}

\* html.unescape on the titles above.
HtmlUnescape(t) == IF t = "B &amp; C" THEN "B & C" ELSE t

\* Answer(html.unescape(item['title']), item['link'], item['tags'],
\*        item['is_answered'], int(item['score']))
ParseItem(item) ==
    [title |-> HtmlUnescape(item.title), link |-> item.link, tags |-> item.tags,
     is_answered |-> item.is_answered, score |-> item.score]

\* Sequences of distinct elements of S, of length at most n.
DistinctSeqs(S, n) ==
    {q \in SeqsUpTo(S, n) : \A i, j \in 1..Len(q) : i /= j => q[i] /= q[j]}

\* What one call of the search API can come to: a well-formed response (one page
\* of at most pagesize items, and the quota that is left), a response that lacks
\* an expected field (KeyError), or a failure of the transport.
SearchReplies(quotas) ==
    {[kind |-> "ok", items |-> its, quota_remaining |-> q] :
        its \in DistinctSeqs(ServerItems, ResultCount), q \in quotas}
    \cup {[kind |-> k, items |-> <<>>, quota_remaining |-> 0] :
            k \in {"KeyError", "ConnectionError"}}

Reverse(xs) == [i \in 1..Len(xs) |-> xs[Len(xs) + 1 - i]]

\* key=lambda a: int(a.is_answered)
SortKey(a) == IF a.is_answered THEN 1 ELSE 0

\* One step of a stable ascending sort: x goes behind every element whose key is
\* not greater than its own.
InsertStable(sorted, x) ==
    LET before == {i \in 1..Len(sorted) : SortKey(sorted[i]) <= SortKey(x)}
        k == IF before = {} THEN 0 ELSE CHOOSE i \in before : \A j \in before : j <= i
    IN  SubSeq(sorted, 1, k) \o <<x>> \o SubSeq(sorted, k + 1, Len(sorted))

RECURSIVE StableSortFrom(_, _)
StableSortFrom(sorted, rest) ==
    IF rest = <<>> THEN sorted
    ELSE StableSortFrom(InsertStable(sorted, Head(rest)), Tail(rest))

StableSortAsc(xs) == StableSortFrom(<<>>, xs)

\* A descending sort that forgets to keep ties in place.
SortAnswersUnstable(xs) == Reverse(StableSortAsc(xs))

\* answers.sort(key=..., reverse=True): list.sort reverses the list, sorts it
\* stably in ascending order and reverses it again.
SortAnswers(xs) == Reverse(StableSortAsc(Reverse(xs)))

(***************************************************************************)
(* The answers cache files                                                 *)
(***************************************************************************)
\* The units a cache file is made of: the gzip header, one row of the JSON list
\* per answer, the gzip trailer; and a range nobody has written, which reads as
\* zeros.
GzipHeader == [kind |-> "gzip_header", row |-> <<>>]
GzipTrailer == [kind |-> "gzip_trailer", row |-> <<>>]
Hole == [kind |-> "zeros", row |-> <<>>]

\* dataclasses.astuple / Answer(*row)
AsTuple(a) == <<a.title, a.link, a.tags, a.is_answered, a.score>>
FromTuple(t) ==
    [title |-> t[1], link |-> t[2], tags |-> t[3], is_answered |-> t[4], score |-> t[5]]

\* The bytes dump_answers_to_cache produces for a list of answers: the gzip
\* stream of json.dumps(answers, default=dataclasses.astuple).
EncodeAnswers(answers) ==
    <<GzipHeader>>
    \o [i \in 1..Len(answers) |-> [kind |-> "row", row |-> AsTuple(answers[i])]]
    \o <<GzipTrailer>>

\* Whether gzip and json.load accept the bytes.
WellFormed(bytes) ==
    /\ Len(bytes) >= 2
    /\ bytes[1].kind = "gzip_header"
    /\ bytes[Len(bytes)].kind = "gzip_trailer"
    /\ \A i \in 2..(Len(bytes) - 1) : bytes[i].kind = "row"

\* load_answers_from_cache on well-formed bytes:
\* list(itertools.starmap(Answer, json.load(infile))).
DecodeAnswers(bytes) == [i \in 1..(Len(bytes) - 2) |-> FromTuple(bytes[i + 1].row)]

NoFile == [exists |-> FALSE, mtime |-> 0, bytes |-> <<>>]

\* write(chunk) at offset pos of a file holding bytes: what lies between the end
\* of the file and pos reads as zeros.
WriteAt(bytes, pos, chunk) ==
    LET n == IF Len(bytes) > pos + Len(chunk) THEN Len(bytes) ELSE pos + Len(chunk)
    IN  [i \in 1..n |->
            IF i > pos /\ i <= pos + Len(chunk) THEN chunk[i - pos]
            ELSE IF i <= Len(bytes) THEN bytes[i]
            ELSE Hole]

\* time.time() - os.path.getmtime(path) >= seconds, with the boundary left out.
OlderThanStrict(mtime, seconds) == now - mtime > seconds

\* older_than
older_than(mtime, seconds) == now - mtime >= seconds

(***************************************************************************)
(* The narrowing by fzf                                                    *)
(***************************************************************************)
Titles(answers) == [i \in 1..Len(answers) |-> answers[i].title]

\* list({a.title: a for a in answers}): a dict keeps each key where it was first
\* inserted.
RECURSIVE UniqueFirst(_, _)
UniqueFirst(seen, ts) ==
    IF ts = <<>> THEN seen
    ELSE UniqueFirst(IF \E i \in 1..Len(seen) : seen[i] = Head(ts)
                     THEN seen ELSE Append(seen, Head(ts)),
                     Tail(ts))

DictKeys(answers) == UniqueFirst(<<>>, Titles(answers))

\* The first answer carrying the title.
DictGetFirst(answers, title) ==
    LET hits == {i \in 1..Len(answers) : answers[i].title = title}
    IN  answers[CHOOSE i \in hits : \A j \in hits : i <= j]

\* {a.title: a for a in answers}[title]: a later item with the same key replaces
\* the value of an earlier one.
DictGet(answers, title) ==
    LET hits == {i \in 1..Len(answers) : answers[i].title = title}
    IN  answers[CHOOSE i \in hits : \A j \in hits : j <= i]

\* The answers of the fzf lines, had they been kept in the order of the answers.
NarrowedInAnswerOrder(answers, filtered_titles) ==
    LET Kept(a) == \E i \in 1..Len(filtered_titles) : filtered_titles[i] = a.title
    IN  SelectSeq(answers, Kept)

\* answers = [title_to_answers[title] for title in filtered_titles]
Narrowed(answers, filtered_titles) ==
    [i \in 1..Len(filtered_titles) |-> DictGet(answers, filtered_titles[i])]

\* What `fzf --filter query` can come to on the candidates: exit 0 with some of
\* the candidate lines in an order of its own, exit 1 (nothing matched), or any
\* other failure (CalledProcessError with another status, fzf missing).
FzfOutcomes(candidates) ==
    LET C == {candidates[i] : i \in 1..Len(candidates)}
    IN  {[kind |-> "ok", candidates |-> candidates, lines |-> ls] :
            ls \in DistinctSeqs(C, Len(candidates)) \ {<<>>}}
        \cup {[kind |-> "no_match", candidates |-> candidates, lines |-> <<>>],
              [kind |-> "CalledProcessError", candidates |-> candidates, lines |-> <<>>]}

\* The text fzf writes to its standard output: each line it keeps, closed by a
\* newline.
FzfStdout(o) == [i \in 1..(2 * Len(o.lines)) |-> IF i % 2 = 1 THEN o.lines[(i + 1) \div 2] ELSE "\n"]

\* re.findall(r'(.*)\n', resp.stdout): the runs between newlines, each closed by
\* a newline.
RECURSIVE FindAllLines(_)
FindAllLines(text) ==
    IF \A i \in 1..Len(text) : text[i] /= "\n" THEN <<>>
    ELSE LET nl == CHOOSE i \in 1..Len(text) :
                      text[i] = "\n" /\ \A j \in 1..(i - 1) : text[j] /= "\n"
         IN  <<SubSeq(text, 1, nl - 1)>> \o FindAllLines(SubSeq(text, nl + 1, Len(text)))

\* Every outcome but success raised.
FzfRaisesUnlessOk(o) == o.kind /= "ok"

\* request_fzf raises: subprocess.run(..., check=True) failed and the exit
\* status is not 1.
FzfRaises(o) == o.kind = "CalledProcessError"

\* What request_fzf returns when it does not raise: [] on exit status 1, the
\* lines of the standard output otherwise.
request_fzf(o) ==
    IF o.kind = "no_match" THEN <<>>
    ELSE [i \in 1..Len(FindAllLines(FzfStdout(o))) |-> FindAllLines(FzfStdout(o))[i][1]]

(***************************************************************************)
(* The search action: main's `search` branch and do_search, one process    *)
(* per invocation.                                                         *)
(***************************************************************************)
AllProcs == {1, 2}

\* The (query, tags) pairs an invocation may be started with, as
\* parse_search_query returns them for "a_b" and for "a #b": two different
\* searches that get_answers_cache sends to the same cache file.
Searches ==
    {[query |-> <<"a", "_", "b">>, tags |-> <<>>],
     [query |-> <<"a">>, tags |-> <<<<"b">>>>]}

\* The secondary filters an invocation may be started with.
AdditionalQueries == {<<>>, <<"x">>}

Paths == {get_answers_cache(SiteId, s.query, s.tags) : s \in Searches}

\* The search an invocation was started with.
SearchOf(p) == [query |-> proc[p].query, tags |-> proc[p].tags]

\* No invocation of the search has stored its results yet.
NeverStored == -1

Idle ==
    [pc |-> "idle", query |-> <<>>, tags |-> <<>>, additional_query |-> <<>>,
     path |-> <<>>, existed |-> FALSE, age |-> 0, took |-> "none",
     ncalls |-> 0, nfzf |-> 0, reply |-> [kind |-> "none", items |-> <<>>, quota_remaining |-> 0], unsorted |-> <<>>,
     fetched |-> <<>>, answers |-> <<>>, quota_remaining |-> 0,
     wbuf |-> <<>>, wpos |-> 0, read |-> <<>>, pre |-> <<>>,
     fzf |-> [kind |-> "none", candidates |-> <<>>, lines |-> <<>>], filtered_titles |-> <<>>, out |-> <<>>, outcome |-> "none"]

\* An error record that can be actioned.
ActionableErrorItem(err) == [kind |-> "error", valid |-> TRUE, what |-> err]

\* response_written's except branch: the payload is the one error record.
ErrorItem(err) == [kind |-> "error", valid |-> FALSE, what |-> err]

Raise(p, err) ==
    proc' = [proc EXCEPT ![p].pc = "done", ![p].outcome = "error",
                         ![p].out = <<ErrorItem(err)>>]

\* main: an invocation of the search action begins; do_search derives the cache
\* path of its search.
Start(p) ==
    /\ proc[p].pc = "idle"
    /\ \E s \in Searches, aq \in AdditionalQueries :
          proc' = [proc EXCEPT ![p] =
                      [Idle EXCEPT !.pc = "check", !.query = s.query, !.tags = s.tags,
                                   !.additional_query = aq,
                                   !.path = get_answers_cache(SiteId, s.query, s.tags)]]
    /\ UNCHANGED <<now, files, stored, raw, parsed, key_in, key_out, sitesVars>>

\* if not answers_path.is_file() or older_than(answers_path, env.cache_max_age)
CheckCache(p) ==
    /\ proc[p].pc = "check"
    /\ LET f == files[proc[p].path]
           stale == ~f.exists \/ older_than(f.mtime, CacheMaxAge)
       IN  proc' = [proc EXCEPT ![p].pc = IF stale THEN "fetch" ELSE "load",
                                ![p].took = IF stale THEN "fetch" ELSE "load",
                                ![p].existed = f.exists,
                                ![p].age = IF f.exists THEN now - f.mtime ELSE 0]
    /\ UNCHANGED <<now, files, stored, raw, parsed, key_in, key_out, sitesVars>>

\* The fetch of a do_search that opened the cache file for writing before it
\* called the server.
FetchAfterOpen(p, replies) ==
    /\ proc[p].pc = "fetch"
    /\ files' = [files EXCEPT ![proc[p].path] =
                    [exists |-> TRUE, mtime |-> now, bytes |-> <<>>]]
    /\ \E r \in replies :
          LET answers == SortAnswers(MapSeq(ParseItem, r.items))
          IN  proc' = [proc EXCEPT
                          ![p].pc = IF r.kind = "ok" THEN "dump_open" ELSE "done",
                          ![p].outcome = IF r.kind = "ok" THEN "none" ELSE "error",
                          ![p].ncalls = @ + 1,
                          ![p].reply = r,
                          ![p].unsorted = MapSeq(ParseItem, r.items),
                          ![p].fetched = answers,
                          ![p].answers = answers,
                          ![p].quota_remaining = r.quota_remaining,
                          ![p].out = IF r.kind = "ok" THEN <<>> ELSE <<ErrorItem(r.kind)>>]
    /\ UNCHANGED <<now, stored, raw, parsed, key_in, key_out, sitesVars>>

\* answers, qi = request_parse_search_api(...); quota_remaining = qi.quota_remaining
Fetch(p, replies) ==
    /\ proc[p].pc = "fetch"
    /\ \E r \in replies :
          IF r.kind = "ok"
          THEN LET answers == MapSeq(ParseItem, r.items)
               IN  proc' = [proc EXCEPT ![p].pc = "dump_open",
                                        ![p].ncalls = @ + 1,
                                        ![p].reply = r,
                                        ![p].unsorted = answers,
                                        ![p].fetched = SortAnswers(answers),
                                        ![p].answers = SortAnswers(answers),
                                        ![p].quota_remaining = r.quota_remaining]
          ELSE proc' = [proc EXCEPT ![p].pc = "done", ![p].outcome = "error",
                                    ![p].ncalls = @ + 1,
                                    ![p].reply = r,
                                    ![p].out = <<ErrorItem(r.kind)>>]
    /\ UNCHANGED <<now, files, stored, raw, parsed, key_in, key_out, sitesVars>>

\* dump_answers_to_cache: gzip.open(path, 'wb') creates the file or truncates the
\* one that is there; it may also fail (OSError).
DumpOpen(p) ==
    /\ proc[p].pc = "dump_open"
    /\ \/ /\ files' = [files EXCEPT ![proc[p].path] =
                          [exists |-> TRUE, mtime |-> now, bytes |-> <<>>]]
          /\ proc' = [proc EXCEPT ![p].pc = "dump_write",
                                  ![p].wbuf = EncodeAnswers(proc[p].answers),
                                  ![p].wpos = 0]
       \/ /\ Raise(p, "OSError")
          /\ UNCHANGED files
    /\ UNCHANGED <<now, stored, raw, parsed, key_in, key_out, sitesVars>>

\* dump_answers_to_cache: the compressed bytes reach the file in one or more
\* writes at the writer's own offset; the with block closes the file after the
\* last one.
DumpWrite(p) ==
    /\ proc[p].pc = "dump_write"
    /\ \E n \in 1..(Len(proc[p].wbuf) - proc[p].wpos) :
          LET pos == proc[p].wpos
              chunk == SubSeq(proc[p].wbuf, pos + 1, pos + n)
              f == files[proc[p].path]
          IN  /\ files' = [files EXCEPT ![proc[p].path] =
                              [exists |-> TRUE, mtime |-> now,
                               bytes |-> WriteAt(f.bytes, pos, chunk)]]
              /\ proc' = [proc EXCEPT ![p].wpos = pos + n,
                                      ![p].pc = IF pos + n = Len(proc[p].wbuf)
                                                THEN "narrow" ELSE "dump_write"]
              /\ stored' = IF pos + n = Len(proc[p].wbuf)
                           THEN [stored EXCEPT ![SearchOf(p)] = now]
                           ELSE stored
    /\ UNCHANGED <<now, raw, parsed, key_in, key_out, sitesVars>>

\* answers = load_answers_from_cache(answers_path); quota_remaining = 9999999
Load(p) ==
    /\ proc[p].pc = "load"
    /\ LET bytes == files[proc[p].path].bytes
       IN  IF WellFormed(bytes)
           THEN proc' = [proc EXCEPT ![p].pc = "narrow",
                                     ![p].read = bytes,
                                     ![p].answers = DecodeAnswers(bytes),
                                     ![p].quota_remaining = UnlimitedQuota]
           ELSE proc' = [proc EXCEPT ![p].pc = "done", ![p].outcome = "error",
                                     ![p].read = bytes,
                                     ![p].out = <<ErrorItem("CacheLoadError")>>]
    /\ UNCHANGED <<now, files, stored, raw, parsed, key_in, key_out, sitesVars>>

\* if additional_query: ... request_fzf ... answers = [title_to_answers[title] ...]
Narrow(p) ==
    /\ proc[p].pc = "narrow"
    /\ IF proc[p].additional_query = <<>>
       THEN proc' = [proc EXCEPT ![p].pc = "emit", ![p].pre = proc[p].answers]
       ELSE \E o \in FzfOutcomes(DictKeys(proc[p].answers)) :
               LET filtered_titles == IF FzfRaises(o) THEN <<>> ELSE request_fzf(o)
               IN  IF FzfRaises(o)
                   THEN proc' = [proc EXCEPT ![p].pc = "done", ![p].outcome = "error",
                                             ![p].nfzf = @ + 1,
                                             ![p].pre = proc[p].answers,
                                             ![p].fzf = o,
                                             ![p].out = <<ErrorItem(o.kind)>>]
                   ELSE proc' = [proc EXCEPT ![p].pc = "emit",
                                             ![p].nfzf = @ + 1,
                                             ![p].pre = proc[p].answers,
                                             ![p].fzf = o,
                                             ![p].filtered_titles = filtered_titles,
                                             ![p].answers =
                                                 Narrowed(proc[p].answers, filtered_titles)]
    /\ UNCHANGED <<now, files, stored, raw, parsed, key_in, key_out, sitesVars>>

WarningItem(quota) == [kind |-> "low_quota", valid |-> FALSE, what |-> quota]
AnswerItem(a) == [kind |-> "answer", valid |-> TRUE, what |-> a]
NoAnswerItem == [kind |-> "no_answer", valid |-> FALSE, what |-> 0]

\* The items with the warning given at the limit too.
ItemsWarnAtLimit(quota_remaining, answers) ==
    (IF quota_remaining <= LowQuota THEN <<WarningItem(quota_remaining)>> ELSE <<>>)
    \o MapSeq(AnswerItem, answers)
    \o (IF answers = <<>> THEN <<NoAnswerItem>> ELSE <<>>)

\* The items do_search returns, which response_written prints.
Items(quota_remaining, answers) ==
    (IF quota_remaining < LowQuota THEN <<WarningItem(quota_remaining)>> ELSE <<>>)
    \o MapSeq(AnswerItem, answers)
    \o (IF answers = <<>> THEN <<NoAnswerItem>> ELSE <<>>)

Emit(p) ==
    /\ proc[p].pc = "emit"
    /\ proc' = [proc EXCEPT ![p].pc = "done", ![p].outcome = "ok",
                            ![p].out = Items(proc[p].quota_remaining, proc[p].answers)]
    /\ UNCHANGED <<now, files, stored, raw, parsed, key_in, key_out, sitesVars>>

\* The process exits; the launcher may start another invocation.
Exit(p) ==
    /\ proc[p].pc = "done"
    /\ proc' = [proc EXCEPT ![p] = Idle]
    /\ UNCHANGED <<now, files, stored, raw, parsed, key_in, key_out, sitesVars>>

\* A second passes.
Tick ==
    /\ now < MaxTime
    /\ now' = now + 1
    /\ UNCHANGED <<files, stored, proc, raw, parsed, key_in, key_out, sitesVars>>

QuotaValues == {LowQuota - 1, LowQuota}

Init ==
    /\ now = 0
    /\ files = [path \in Paths |-> NoFile]
    /\ proc = [p \in AllProcs |-> Idle]
    /\ raw = <<>>
    /\ parsed = <<>>
    /\ key_in = <<>>
    /\ key_out = <<>>
    /\ InitSitesVars
    /\ stored = [s \in Searches |-> NeverStored]

\* Invocations that do not overlap: one process at a time.
Next ==
    \/ Start(1)
    \/ CheckCache(1)
    \/ Fetch(1, SearchReplies(QuotaValues))
    \/ DumpOpen(1)
    \/ DumpWrite(1)
    \/ Load(1)
    \/ Narrow(1)
    \/ Emit(1)
    \/ Exit(1)
    \/ Tick

Spec == Init /\ [][Next]_vars

(***************************************************************************)
(* Overlapping invocations: the launcher starts a second process while the *)
(* first is still running, within the same second.  The server's replies   *)
(* are kept short here.                                                    *)
(***************************************************************************)
ShortReplies ==
    {r \in SearchReplies({LowQuota}) : r.kind = "ok" => Len(r.items) <= 1}

NextConc ==
    \/ \E p \in AllProcs :
          \/ Start(p)
          \/ CheckCache(p)
          \/ Fetch(p, ShortReplies)
          \/ DumpOpen(p)
          \/ DumpWrite(p)
          \/ Load(p)
          \/ Narrow(p)
          \/ Emit(p)
          \/ Exit(p)

SpecConc == Init /\ [][NextConc]_vars

(***************************************************************************)
(* parse_search_query and get_answers_cache on enumerated arguments        *)
(***************************************************************************)
\* "foo #bar #baz // extra text"
Example1 ==
    <<"f", "o", "o", " ", "#", "b", "a", "r", " ", "#", "b", "a", "z", " ",
      "/", "/", " ", "e", "x", "t", "r", "a", " ", "t", "e", "x", "t">>

\* "foo bar/"
Example2 == <<"f", "o", "o", " ", "b", "a", "r", "/">>

\* " c #a x #b //y//z "
Example3 ==
    <<" ", "c", " ", "#", "a", " ", "x", " ", "#", "b", " ", "/", "/", "y", "/", "/",
      "z", " ">>

ParseInputs ==
    SeqsUpTo({"a", "#", "/", " "}, MaxRawLen) \cup {Example1, Example2, Example3}

InitParse ==
    /\ raw \in ParseInputs
    /\ parsed = <<>>
    /\ now = 0
    /\ files = [path \in Paths |-> NoFile]
    /\ proc = [p \in AllProcs |-> Idle]
    /\ key_in = <<>>
    /\ key_out = <<>>
    /\ InitSitesVars
    /\ stored = [s \in Searches |-> NeverStored]

\* query, tags, additional_query = parse_search_query(args.query)
Parse ==
    /\ parsed = <<>>
    /\ parsed' = <<parse_search_query(raw)>>
    /\ UNCHANGED <<now, files, stored, proc, raw, key_in, key_out, sitesVars>>

SpecParse == InitParse /\ [][Parse]_vars

KeyStrings(n) == SeqsUpTo({"a", "_"}, n)

Triples ==
    {[site_id |-> s, query |-> q, tags |-> t] :
        s \in {<<"s">>, <<"s", "o">>},
        q \in KeyStrings(MaxQueryLen),
        t \in SeqsUpTo(KeyStrings(MaxTagLen), MaxTags)}

InitKey ==
    /\ key_in \in Triples \X Triples
    /\ key_out = <<>>
    /\ now = 0
    /\ files = [path \in Paths |-> NoFile]
    /\ proc = [p \in AllProcs |-> Idle]
    /\ raw = <<>>
    /\ parsed = <<>>
    /\ InitSitesVars
    /\ stored = [s \in Searches |-> NeverStored]

KeyOf(t) ==
    [digest_input |-> DigestInput(t.site_id, t.query, t.tags),
     path |-> get_answers_cache(t.site_id, t.query, t.tags)]

\* cd.get_answers_cache(site_id, query, tags), for each of the two triples
DeriveKeys ==
    /\ key_out = <<>>
    /\ key_out' = <<KeyOf(key_in[1]), KeyOf(key_in[2])>>
    /\ UNCHANGED <<now, files, stored, proc, raw, parsed, key_in, sitesVars>>

SpecKey == InitKey /\ [][DeriveKeys]_vars

(***************************************************************************)
(* The sites catalog: request_parse_sites_api, the Sites cache file        *)
(* all_sites.json, do_cache_sites and do_sites.                            *)
(***************************************************************************)
MaxPages == 2        \* the listing of the server has at most this many pages
MaxPageItems == 2    \* the most items on one page of the modelled listing
SitesPageSize == 100 \* 'pagesize': 100

\* The sites the server may list: a main site, a meta site whose name needs
\* html.unescape, and a site in closed beta.
SO == [api_site_parameter |-> "stackoverflow", name |-> "Stack Overflow",
       audience |-> "programmers", icon_url |-> "so.png",
       site_type |-> "main_site", site_state |-> "normal"]
BC == [api_site_parameter |-> "meta.bc", name |-> "B &amp; C",
       audience |-> "users of bc", icon_url |-> "bc.png",
       site_type |-> "meta_site", site_state |-> "normal"]
Beta == [api_site_parameter |-> "beta", name |-> "Beta",
         audience |-> "testers", icon_url |-> "beta.png",
         site_type |-> "main_site", site_state |-> "closed_beta"]
ServerSites == {SO, BC, Beta}

\* Site(item['api_site_parameter'], html.unescape(item['name']), item['audience'],
\*      item['icon_url'], item['site_type'] == 'meta_site')
ParseSite(item) ==
    [id_ |-> item.api_site_parameter, name |-> HtmlUnescape(item.name),
     audience |-> item.audience, icon_url |-> item.icon_url,
     is_meta |-> (item.site_type = "meta_site")]

\* The loop body over resp['items'] with every site appended, closed beta too.
ParsePageKeepBeta(items) == MapSeq(ParseSite, items)

\* The loop body over resp['items']: closed-beta sites are skipped.
ParsePage(items) ==
    LET Open(item) == item.site_state /= "closed_beta"
    IN  MapSeq(ParseSite, SelectSeq(items, Open))

\* What one request of the sites API can come to: a page of the listing and
\* whether more pages follow (none after the last page of the listing), a
\* response that lacks an expected field (KeyError), or a failure of the
\* transport.
SitePageReplies(page) ==
    {[kind |-> "ok", items |-> its, has_more |-> m] :
        its \in DistinctSeqs(ServerSites, MaxPageItems),
        m \in IF page < MaxPages THEN BOOLEAN ELSE {FALSE}}
    \cup {[kind |-> k, items |-> <<>>, has_more |-> FALSE] :
            k \in {"KeyError", "ConnectionError"}}

\* The units all_sites.json is made of: the opening bracket, one row of the
\* JSON list per site, the closing bracket.
JsonOpen == [kind |-> "json_open", row |-> <<>>]
JsonClose == [kind |-> "json_close", row |-> <<>>]

\* dataclasses.astuple / Site(*row)
SiteAsTuple(s) == <<s.id_, s.name, s.audience, s.icon_url, s.is_meta>>
SiteFromTuple(t) ==
    [id_ |-> t[1], name |-> t[2], audience |-> t[3], icon_url |-> t[4], is_meta |-> t[5]]

\* json.dump(sites, outfile, default=dataclasses.astuple)
EncodeSites(sites) ==
    <<JsonOpen>>
    \o [i \in 1..Len(sites) |-> [kind |-> "row", row |-> SiteAsTuple(sites[i])]]
    \o <<JsonClose>>

\* Whether json.load accepts the text.
SitesWellFormed(bytes) ==
    /\ Len(bytes) >= 2
    /\ bytes[1].kind = "json_open"
    /\ bytes[Len(bytes)].kind = "json_close"
    /\ \A i \in 2..(Len(bytes) - 1) : bytes[i].kind = "row"

\* load_sites_from_cache on well-formed text:
\* list(itertools.starmap(Site, json.load(infile)))
DecodeSites(bytes) == [i \in 1..(Len(bytes) - 2) |-> SiteFromTuple(bytes[i + 1].row)]

\* The ids of the sites whose rows the text holds.
CachedIds(bytes) == {bytes[i].row[1] : i \in {j \in 1..Len(bytes) : bytes[j].kind = "row"}}

\* An uncaught exception ends `cache_sites` (main does not wrap it): a
\* traceback, no payload.
Crash == csproc' = [csproc EXCEPT !.pc = "done", !.outcome = "crash"]

\* main: an invocation of the cache_sites action begins.  Invocations on the
\* sites catalog follow one another.
CacheSitesStart ==
    /\ csproc.pc = "idle"
    /\ siteproc.pc = "idle"
    /\ csproc' = [IdleCacheSites EXCEPT !.pc = "request", !.page = 1,
                                        !.has_more = TRUE,
                                        !.pre_ids = CachedIds(sites_file.bytes)]
    /\ UNCHANGED <<now, files, stored, proc, raw, parsed, key_in, key_out,
                   sites_file, icons, siteproc>>

\* page += 1
NextPage(page) == page + 1

\* request_parse_sites_api: one turn of `while has_more`; replies[page] is what
\* the request of the page can come to.
RequestPage(replies) ==
    /\ csproc.pc = "request"
    /\ \E r \in replies[csproc.page] :
          LET asked == Append(csproc.requests,
                              [page |-> csproc.page, pagesize |-> SitesPageSize])
          IN  IF r.kind = "ok"
              THEN csproc' = [csproc EXCEPT
                                 !.requests = asked,
                                 !.pages = Append(@, r),
                                 !.sites = @ \o ParsePage(r.items),
                                 !.has_more = r.has_more,
                                 !.page = NextPage(@),
                                 !.pc = IF r.has_more THEN "request" ELSE "dump_open"]
              ELSE csproc' = [csproc EXCEPT
                                 !.requests = asked,
                                 !.pages = Append(@, r),
                                 !.pc = "done", !.outcome = "crash"]
    /\ UNCHANGED <<now, files, stored, proc, raw, parsed, key_in, key_out,
                   sites_file, icons, siteproc>>

\* dump_sites_to_cache: open(path, 'w') creates the file or truncates the one
\* that is there; it may also fail (OSError).
CacheSitesDumpOpen ==
    /\ csproc.pc = "dump_open"
    /\ \/ /\ sites_file' = [exists |-> TRUE, mtime |-> now, bytes |-> <<>>]
          /\ csproc' = [csproc EXCEPT !.pc = "dump_write",
                                      !.wbuf = EncodeSites(csproc.sites),
                                      !.wpos = 0]
       \/ /\ Crash
          /\ UNCHANGED sites_file
    /\ UNCHANGED <<now, files, stored, proc, raw, parsed, key_in, key_out, icons, siteproc>>

\* dump_sites_to_cache: the text reaches the file in one or more writes; a write
\* may fail (OSError, the disk is full) and leave what was written before it.
CacheSitesDumpWrite ==
    /\ csproc.pc = "dump_write"
    /\ \/ \E n \in 1..(Len(csproc.wbuf) - csproc.wpos) :
             LET pos == csproc.wpos
                 chunk == SubSeq(csproc.wbuf, pos + 1, pos + n)
             IN  /\ sites_file' = [exists |-> TRUE, mtime |-> now,
                                   bytes |-> WriteAt(sites_file.bytes, pos, chunk)]
                 /\ csproc' = [csproc EXCEPT
                                  !.wpos = pos + n,
                                  !.icon_idx = 1,
                                  !.pc = IF pos + n = Len(csproc.wbuf)
                                         THEN "icons" ELSE "dump_write"]
       \/ /\ Crash
          /\ UNCHANGED sites_file
    /\ UNCHANGED <<now, files, stored, proc, raw, parsed, key_in, key_out, icons, siteproc>>

\* do_cache_sites: one turn of `for s in outstanding_sites`, the lazy filter
\* icon_need_update included.  A failed download or an unreadable image is
\* skipped; icon.save may fail, with or without a file left behind.
CacheIcon ==
    /\ csproc.pc = "icons"
    /\ IF csproc.icon_idx > Len(csproc.sites)
       THEN /\ csproc' = [csproc EXCEPT !.pc = "done", !.outcome = "ok"]
            /\ UNCHANGED icons
       ELSE LET s == csproc.sites[csproc.icon_idx]
            IN  IF s.id_ \in icons
                THEN /\ csproc' = [csproc EXCEPT !.icon_idx = @ + 1]
                     /\ UNCHANGED icons
                ELSE \/ /\ csproc' = [csproc EXCEPT !.icon_idx = @ + 1]
                        /\ icons' \in {icons, icons \cup {s.id_}}
                     \/ /\ Crash
                        /\ icons' \in {icons, icons \cup {s.id_}}
    /\ UNCHANGED <<now, files, stored, proc, raw, parsed, key_in, key_out,
                   sites_file, siteproc>>

\* The process exits.
CacheSitesExit ==
    /\ csproc.pc = "done"
    /\ csproc' = IdleCacheSites
    /\ UNCHANGED <<now, files, stored, proc, raw, parsed, key_in, key_out,
                   sites_file, icons, siteproc>>

\* The filter queries a `sites` invocation may be started with, stripped.
SiteQueries == {<<>>, <<"x">>}

SiteNames(sites) == [i \in 1..Len(sites) |-> sites[i].name]

\* list({s.name: s for s in sites})
SiteDictKeys(sites) == UniqueFirst(<<>>, SiteNames(sites))

\* {s.name: s for s in sites}[name]
SiteDictGet(sites, name) ==
    LET hits == {i \in 1..Len(sites) : sites[i].name = name}
    IN  sites[CHOOSE i \in hits : \A j \in hits : j <= i]

\* sites = [name_to_sites[name] for name in filtered_names]
SitesNarrowed(sites, filtered_names) ==
    [i \in 1..Len(filtered_names) |-> SiteDictGet(sites, filtered_names[i])]

\* The meta filter left out.
KeepMeta(ignore_meta_sites, sites) == sites

\* if env.ignore_meta_sites: sites = [s for s in sites if not s.is_meta]
DropMeta(ignore_meta_sites, sites) ==
    LET NotMeta(s) == ~s.is_meta
    IN  IF ignore_meta_sites THEN SelectSeq(sites, NotMeta) ELSE sites

NotCollectedItem == [kind |-> "not_collected", valid |-> FALSE, what |-> 0]
NoMatchingSitesItem == [kind |-> "no_matching_sites", valid |-> FALSE, what |-> 0]
SiteItem(s) ==
    [kind |-> "site", valid |-> TRUE,
     what |-> [site |-> s, icon |-> IF s.id_ \in icons THEN s.id_ ELSE "icon.png"]]

\* The items do_sites returns, which response_written prints.
SiteItems(sites) ==
    MapSeq(SiteItem, sites) \o (IF sites = <<>> THEN <<NoMatchingSitesItem>> ELSE <<>>)

\* The guard that never finds the list empty.
NeverEmpty(sites) == FALSE

\* if not sites:
NotCollected(sites) == sites = <<>>

\* main: an invocation of the sites action begins, with its stripped query and
\* its environment.
SitesStart ==
    /\ siteproc.pc = "idle"
    /\ csproc.pc = "idle"
    /\ \E q \in SiteQueries, ig \in BOOLEAN :
          siteproc' = [IdleSites EXCEPT !.pc = "load", !.query = q,
                                        !.ignore_meta_sites = ig]
    /\ UNCHANGED <<now, files, stored, proc, raw, parsed, key_in, key_out,
                   sites_file, icons, csproc>>

\* sites = load_sites_from_cache(sites_path) if sites_path.is_file() else []
\* if not sites: return the 'Sites not collected yet' item
SitesLoad ==
    /\ siteproc.pc = "load"
    /\ LET f == sites_file
           seen == [siteproc EXCEPT !.existed = f.exists,
                                    !.age = IF f.exists THEN now - f.mtime ELSE 0]
       IN  IF f.exists /\ ~SitesWellFormed(f.bytes)
           THEN siteproc' = [seen EXCEPT !.pc = "done", !.outcome = "error",
                                         !.out = <<ErrorItem("JSONDecodeError")>>]
           ELSE LET sites == IF f.exists THEN DecodeSites(f.bytes) ELSE <<>>
                IN  IF NotCollected(sites)
                    THEN siteproc' = [seen EXCEPT !.pc = "done",
                                                  !.outcome = "not_collected",
                                                  !.out = <<NotCollectedItem>>]
                    ELSE siteproc' = [seen EXCEPT !.pc = "filter",
                                                  !.loaded = sites,
                                                  !.sites = sites]
    /\ UNCHANGED <<now, files, stored, proc, raw, parsed, key_in, key_out,
                   sites_file, icons, csproc>>

\* if env.ignore_meta_sites: ...; name_to_sites = ...; if query: request_fzf ...
SitesFilter ==
    /\ siteproc.pc = "filter"
    /\ LET adjusted == DropMeta(siteproc.ignore_meta_sites, siteproc.sites)
       IN  IF siteproc.query = <<>>
           THEN siteproc' = [siteproc EXCEPT !.pc = "emit", !.sites = adjusted]
           ELSE \E o \in FzfOutcomes(SiteDictKeys(adjusted)) :
                   IF FzfRaises(o)
                   THEN siteproc' = [siteproc EXCEPT
                                        !.pc = "done", !.outcome = "error",
                                        !.nfzf = @ + 1, !.fzf = o,
                                        !.out = <<ErrorItem(o.kind)>>]
                   ELSE siteproc' = [siteproc EXCEPT
                                        !.pc = "emit",
                                        !.nfzf = @ + 1, !.fzf = o,
                                        !.sites = SitesNarrowed(adjusted, request_fzf(o))]
    /\ UNCHANGED <<now, files, stored, proc, raw, parsed, key_in, key_out,
                   sites_file, icons, csproc>>

SitesEmit ==
    /\ siteproc.pc = "emit"
    /\ siteproc' = [siteproc EXCEPT !.pc = "done", !.outcome = "ok",
                                    !.out = SiteItems(siteproc.sites)]
    /\ UNCHANGED <<now, files, stored, proc, raw, parsed, key_in, key_out,
                   sites_file, icons, csproc>>

\* The process exits.
SitesExit ==
    /\ siteproc.pc = "done"
    /\ siteproc' = IdleSites
    /\ UNCHANGED <<now, files, stored, proc, raw, parsed, key_in, key_out,
                   sites_file, icons, csproc>>

AllSitePages == [page \in 1..MaxPages |-> SitePageReplies(page)]

\* Invocations of cache_sites and sites, one after the other.
NextSites ==
    \/ CacheSitesStart
    \/ RequestPage(AllSitePages)
    \/ CacheSitesDumpOpen
    \/ CacheSitesDumpWrite
    \/ CacheIcon
    \/ CacheSitesExit
    \/ SitesStart
    \/ SitesLoad
    \/ SitesFilter
    \/ SitesEmit
    \/ SitesExit

SpecSites == Init /\ [][NextSites]_vars

\* The same with a clock, so that the cache file ages between invocations.  The
\* pages of the listing are kept short here.
ShortSitePages ==
    [page \in 1..MaxPages |->
        {r \in SitePageReplies(page) : r.kind = "ok" => Len(r.items) <= 1}]

NextSitesClock ==
    \/ CacheSitesStart
    \/ RequestPage(ShortSitePages)
    \/ CacheSitesDumpOpen
    \/ CacheSitesDumpWrite
    \/ CacheIcon
    \/ CacheSitesExit
    \/ SitesStart
    \/ SitesLoad
    \/ SitesFilter
    \/ SitesEmit
    \/ SitesExit
    \/ Tick

SpecSitesClock == Init /\ [][NextSitesClock]_vars

(***************************************************************************)
(* The three actions of main together: search, sites and cache_sites       *)
(* invocations, one after the other, with short replies of the servers.    *)
(* The launcher may end a search process before it has finished (it does   *)
(* so when the user types on).                                             *)
(***************************************************************************)
SearchQuiet == \A p \in AllProcs : proc[p].pc = "idle"
SitesQuiet == csproc.pc = "idle" /\ siteproc.pc = "idle"

\* The process is ended from outside: no payload, and the cache file stays as
\* the last write left it.
Kill(p) ==
    /\ proc[p].pc \notin {"idle", "done"}
    /\ proc' = [proc EXCEPT ![p] = Idle]
    /\ UNCHANGED <<now, files, stored, raw, parsed, key_in, key_out, sitesVars>>

NextActions ==
    \/ SitesQuiet /\ Start(1)
    \/ CheckCache(1)
    \/ Fetch(1, ShortReplies)
    \/ DumpOpen(1)
    \/ DumpWrite(1)
    \/ Load(1)
    \/ Narrow(1)
    \/ Emit(1)
    \/ Exit(1)
    \/ Kill(1)
    \/ SearchQuiet /\ CacheSitesStart
    \/ RequestPage(ShortSitePages)
    \/ CacheSitesDumpOpen
    \/ CacheSitesDumpWrite
    \/ CacheIcon
    \/ CacheSitesExit
    \/ SearchQuiet /\ SitesStart
    \/ SitesLoad
    \/ SitesFilter
    \/ SitesEmit
    \/ SitesExit

SpecActions == Init /\ [][NextActions]_vars

\* The two actions that call a server, with a clock: search invocations on a
\* cache directory where cache_sites has written nothing, and cache_sites
\* invocations on one where no search has written anything.
SearchPristine == SearchQuiet /\ \A path \in Paths : ~files[path].exists
SitesPristine == SitesQuiet /\ ~sites_file.exists /\ icons = {}

NextRefresh ==
    \/ SitesPristine /\ Start(1)
    \/ CheckCache(1)
    \/ Fetch(1, SearchReplies(QuotaValues))
    \/ DumpOpen(1)
    \/ DumpWrite(1)
    \/ Load(1)
    \/ Narrow(1)
    \/ Emit(1)
    \/ Exit(1)
    \/ SearchPristine /\ CacheSitesStart
    \/ RequestPage(ShortSitePages)
    \/ CacheSitesDumpOpen
    \/ CacheSitesDumpWrite
    \/ CacheIcon
    \/ CacheSitesExit
    \/ Tick

SpecRefresh == Init /\ [][NextRefresh]_vars

(***************************************************************************)
(* Properties                                                              *)
(***************************************************************************)
HasWarning(out) == \E i \in 1..Len(out) : out[i].kind = "low_quota"

\* The invocation has written all of its answers to the cache file.
Dumped(p) ==
    /\ proc[p].took = "fetch"
    /\ proc[p].wbuf /= <<>>
    /\ proc[p].wpos = Len(proc[p].wbuf)

\* C1: an existing cache file whose age equals cache_max_age is stale and the
\* invocation fetches (it calls the server, and no load is made); one second
\* younger it is fresh and the invocation loads it without calling the server;
\* with no cache file the invocation always fetches.
C1_TtlBoundary ==
    \A p \in AllProcs :
        proc[p].took /= "none" =>
            /\ ~proc[p].existed => proc[p].took = "fetch"
            /\ (proc[p].existed /\ proc[p].age >= CacheMaxAge) => proc[p].took = "fetch"
            /\ (proc[p].existed /\ proc[p].age = CacheMaxAge - 1) => proc[p].took = "load"
            /\ proc[p].took = "load" => (proc[p].ncalls = 0 /\ proc[p].wbuf = <<>>)
            /\ (proc[p].took = "fetch" /\ proc[p].outcome = "ok") =>
                  (proc[p].ncalls = 1 /\ Dumped(p) /\ proc[p].read = <<>>)

\* A file exactly cache_max_age old was found, fetched again and rewritten.
C1_Witness ==
    \E p \in AllProcs :
        /\ proc[p].existed
        /\ proc[p].age = CacheMaxAge
        /\ proc[p].outcome = "ok"
        /\ proc[p].ncalls = 1
        /\ Dumped(p)

\* C2, as stated: in every finished invocation the warning is in the output
\* exactly if the fetch path was taken and the response reported a quota below
\* 10, and then it is the first record.
C2_Original ==
    \A p \in AllProcs :
        proc[p].pc = "done" =>
            /\ HasWarning(proc[p].out) <=>
                  /\ proc[p].took = "fetch"
                  /\ proc[p].reply.kind = "ok"
                  /\ proc[p].reply.quota_remaining < LowQuota
            /\ HasWarning(proc[p].out) =>
                  /\ proc[p].out[1].kind = "low_quota"
                  /\ \A i \in 2..Len(proc[p].out) : proc[p].out[i].kind /= "low_quota"

\* C2, amended: in every invocation that does not end in the error outcome the
\* warning is in the output exactly if the fetch path was taken and the response
\* reported a quota below 10; it is never in the output after a load, nor in
\* the error outcome; when present it is the first record and the only warning.
C2_QuotaWarning ==
    \A p \in AllProcs :
        proc[p].pc = "done" =>
            /\ HasWarning(proc[p].out) <=>
                  /\ proc[p].outcome = "ok"
                  /\ proc[p].took = "fetch"
                  /\ proc[p].reply.kind = "ok"
                  /\ proc[p].reply.quota_remaining < LowQuota
            /\ proc[p].took = "load" => ~HasWarning(proc[p].out)
            /\ HasWarning(proc[p].out) =>
                  /\ proc[p].out[1].kind = "low_quota"
                  /\ \A i \in 2..Len(proc[p].out) : proc[p].out[i].kind /= "low_quota"

\* A fetch reported a low quota and the warning stands before two answers.
C2_Witness ==
    \E p \in AllProcs :
        /\ proc[p].pc = "done"
        /\ proc[p].took = "fetch"
        /\ proc[p].reply.quota_remaining < LowQuota
        /\ Len(proc[p].out) = 3
        /\ proc[p].out[1].kind = "low_quota"
        /\ proc[p].out[2].kind = "answer"

\* C3, as stated: whatever a reader loads from the cache file while another
\* invocation writes it is a complete file.
C3_NoPartialRead ==
    \A p \in AllProcs :
        (proc[p].took = "load" /\ proc[p].pc \notin {"check", "load"}) =>
            WellFormed(proc[p].read)

\* C4, as stated: an invocation that finds a fresh but corrupt cache file
\* fetches from the server, rewrites the file and returns the fetched answers.
C4_CorruptIsMiss ==
    \A p \in AllProcs :
        (proc[p].pc = "done" /\ proc[p].took = "load" /\ ~WellFormed(proc[p].read)) =>
            /\ proc[p].outcome = "ok"
            /\ proc[p].ncalls = 1
            /\ WellFormed(files[proc[p].path].bytes)

\* s holds the elements of u with every answered one before every unanswered
\* one, and the answered ones, as the unanswered ones, in the order they have in u.
AnsweredFirstStable(u, s) ==
    LET Answered(a) == a.is_answered
        Unanswered(a) == ~a.is_answered
    IN  /\ Len(s) = Len(u)
        /\ SelectSeq(s, Answered) = SelectSeq(u, Answered)
        /\ SelectSeq(s, Unanswered) = SelectSeq(u, Unanswered)
        /\ \A i, j \in 1..Len(s) : (i < j /\ s[j].is_answered) => s[i].is_answered

\* C5: the list the fetch step produces is a permutation of the parsed answers
\* with the answered ones first and the order of the server kept among answers
\* of equal is_answered; and that list is what the cache file holds once the
\* invocation has written it.
C5_SortStable ==
    \A p \in AllProcs :
        (proc[p].took = "fetch" /\ proc[p].reply.kind = "ok") =>
            /\ proc[p].unsorted = MapSeq(ParseItem, proc[p].reply.items)
            /\ AnsweredFirstStable(proc[p].unsorted, proc[p].fetched)
            /\ Dumped(p) =>
                  /\ WellFormed(files[proc[p].path].bytes)
                  /\ DecodeAnswers(files[proc[p].path].bytes) = proc[p].fetched

\* The server sent an unanswered item before two answered ones, and the sorted
\* list is in the cache file.
C5_Witness ==
    \E p \in AllProcs :
        /\ Dumped(p)
        /\ Len(proc[p].unsorted) = 3
        /\ ~proc[p].unsorted[1].is_answered
        /\ proc[p].fetched /= proc[p].unsorted

ElementsOf(xs) == {xs[i] : i \in 1..Len(xs)}

\* The invocation is past the narrowing step and has not failed.
PastNarrow(p) ==
    \/ proc[p].pc = "emit"
    \/ proc[p].pc = "done" /\ proc[p].outcome = "ok"

\* C6, as stated: with a secondary filter the result holds exactly the answers
\* whose titles are in the output of fzf, in the order of that output; without
\* one fzf is not called and the answers are unchanged.
C6_Original ==
    \A p \in AllProcs :
        PastNarrow(p) =>
            IF proc[p].additional_query /= <<>>
            THEN /\ Titles(proc[p].answers) = proc[p].filtered_titles
                 /\ ElementsOf(proc[p].answers) =
                       {a \in ElementsOf(proc[p].pre) :
                           a.title \in ElementsOf(proc[p].filtered_titles)}
            ELSE proc[p].nfzf = 0 /\ proc[p].answers = proc[p].pre

\* C6, amended: with a secondary filter the result holds, for each title in the
\* output of fzf and in the order of that output, one of the answers carrying
\* that title, and nothing else; it holds exactly the answers whose titles are
\* in that output when no two answers share a title.  Without a secondary
\* filter fzf is not called and the answers are unchanged.
C6_Narrowing ==
    \A p \in AllProcs :
        PastNarrow(p) =>
            IF proc[p].additional_query /= <<>>
            THEN /\ proc[p].nfzf = 1
                 /\ proc[p].fzf.candidates = DictKeys(proc[p].pre)
                 /\ Titles(proc[p].answers) = proc[p].filtered_titles
                 /\ ElementsOf(proc[p].answers) \subseteq ElementsOf(proc[p].pre)
                 /\ Len(DictKeys(proc[p].pre)) = Len(proc[p].pre) =>
                       ElementsOf(proc[p].answers) =
                           {a \in ElementsOf(proc[p].pre) :
                               a.title \in ElementsOf(proc[p].filtered_titles)}
            ELSE proc[p].nfzf = 0 /\ proc[p].answers = proc[p].pre

\* fzf returned two titles in the opposite order of the answers.
C6_Witness ==
    \E p \in AllProcs :
        /\ PastNarrow(p)
        /\ proc[p].fzf.kind = "ok"
        /\ Len(proc[p].filtered_titles) = 2
        /\ proc[p].filtered_titles = Reverse(DictKeys(proc[p].pre))
        /\ Len(proc[p].answers) = 2

\* C7, as stated: a title shared by several answers is passed to fzf once, at
\* the place of its first occurrence, and the answer kept for it is the first
\* answer that carries it.
C7_FirstOccurrenceWins ==
    \A p \in AllProcs :
        (PastNarrow(p) /\ proc[p].additional_query /= <<>>) =>
            /\ proc[p].fzf.candidates = UniqueFirst(<<>>, Titles(proc[p].pre))
            /\ \A i \in 1..Len(proc[p].answers) :
                  proc[p].answers[i] = DictGetFirst(proc[p].pre, proc[p].filtered_titles[i])

IsPermutation(s, t) ==
    /\ Len(s) = Len(t)
    /\ \A x \in ElementsOf(s) \cup ElementsOf(t) :
          Cardinality({i \in 1..Len(s) : s[i] = x})
              = Cardinality({i \in 1..Len(t) : t[i] = x})

\* C8, as stated: two different triples (site_id, query, tags) never have the
\* same digest input.
C8_NoCollision ==
    key_out /= <<>> =>
        (key_in[1] /= key_in[2] => key_out[1].digest_input /= key_out[2].digest_input)

\* C9, as stated: the key has 12 characters before the extension, and a tag
\* list permuted into a different sequence gives a different digest input.
C9_PermutationChangesKey ==
    key_out /= <<>> =>
        /\ \A i \in 1..2 : Len(key_out[i].path) = KeyLen + Len(CacheExt)
        /\ ( /\ key_in[1].site_id = key_in[2].site_id
             /\ key_in[1].query = key_in[2].query
             /\ IsPermutation(key_in[1].tags, key_in[2].tags)
             /\ key_in[1].tags /= key_in[2].tags )
           => key_out[1].digest_input /= key_out[2].digest_input

\* C10, as stated: "foo #bar #baz // extra text" parses to the query "foo", the
\* tags bar and baz and the secondary filter "extra text"; "foo bar/" to the
\* query "foo bar" with no tags and no secondary filter; an argument without a
\* slash has no secondary filter.
C10_Examples ==
    parsed /= <<>> =>
        /\ raw = Example1 =>
              parsed[1] = [query |-> <<"f", "o", "o">>,
                           tags |-> <<<<"b", "a", "r">>, <<"b", "a", "z">>>>,
                           additional_query |->
                               <<"e", "x", "t", "r", "a", " ", "t", "e", "x", "t">>]
        /\ raw = Example2 =>
              parsed[1] = [query |-> <<"f", "o", "o", " ", "b", "a", "r">>,
                           tags |-> <<>>,
                           additional_query |-> <<>>]
        /\ (\A i \in 1..Len(raw) : raw[i] /= "/") => parsed[1].additional_query = <<>>

\* The maximal runs of non-whitespace characters of s, as (first, last) positions.
TokenSpans(s) ==
    {sp \in (1..Len(s)) \X (1..Len(s)) :
        /\ sp[1] <= sp[2]
        /\ \A k \in sp[1]..sp[2] : s[k] \notin Whitespace
        /\ sp[1] = 1 \/ s[sp[1] - 1] \in Whitespace
        /\ sp[2] = Len(s) \/ s[sp[2] + 1] \in Whitespace}

\* The whitespace-separated tokens of s, in the order they have in s.
TokensOf(s) ==
    LET spans == TokenSpans(s)
        nth(i) == CHOOSE sp \in spans :
                      Cardinality({o \in spans : o[1] < sp[1]}) = i - 1
    IN  [i \in 1..Cardinality(spans) |-> SubSeq(s, nth(i)[1], nth(i)[2])]

\* What the result of parse_search_query has to be when s is split at its first
\* "//" into the terms/tags portion and the secondary filter; without a "//" the
\* portion is whole.
SplitsAtFirst(s, whole, result) ==
    LET hits == {i \in 1..(Len(s) - 1) : s[i] = "/" /\ s[i + 1] = "/"}
        first == CHOOSE i \in hits : \A j \in hits : i <= j
        portion == IF hits = {} THEN whole ELSE SubSeq(s, 1, first - 1)
        after == IF hits = {} THEN <<>> ELSE SubSeq(s, first + 2, Len(s))
        toks == TokensOf(portion)
        IsTag(w) == w[1] = "#"
        IsTerm(w) == w[1] /= "#"
        tagToks == SelectSeq(toks, IsTag)
        termToks == SelectSeq(toks, IsTerm)
    IN  /\ result.additional_query = after
        /\ result.tags = [i \in 1..Len(tagToks) |-> SubSeq(tagToks[i], 2, Len(tagToks[i]))]
        /\ result.query = Join(<<" ">>, termToks)
        /\ TokensOf(result.query) = termToks
        /\ Len(result.tags) + Len(TokensOf(result.query)) = Len(toks)

\* C11, as stated: the argument string is split at its first "//", the text
\* before it being the terms/tags portion and the text after it the secondary
\* filter; every token of the portion that starts with '#' is a tag, less that
\* one character, the other tokens are the query, joined by single spaces, all
\* in their order, none lost or doubled.
C11_Original ==
    parsed /= <<>> => SplitsAtFirst(raw, raw, parsed[1])

\* C11, amended: the same of the argument string less its leading and trailing
\* whitespace; and when that string holds no "//" but ends with '/', the
\* terms/tags portion is the string less this last character.
C11_SplitsAtFirst ==
    parsed /= <<>> =>
        LET s == Strip(raw)
            whole == IF s /= <<>> /\ s[Len(s)] = "/" THEN SubSeq(s, 1, Len(s) - 1) ELSE s
        IN  SplitsAtFirst(s, whole, parsed[1])

\* An argument with two "//", two tags and two terms has been parsed.
C11_Witness ==
    /\ parsed /= <<>>
    /\ Cardinality({i \in 1..(Len(raw) - 1) : raw[i] = "/" /\ raw[i + 1] = "/"}) = 2
    /\ Len(parsed[1].tags) = 2
    /\ Len(TokensOf(parsed[1].query)) = 2
    /\ FindSlashSlash(parsed[1].additional_query) > 0

(***************************************************************************)
(* The sites catalog                                                       *)
(***************************************************************************)
\* The items of all the pages, first page first.
RECURSIVE ItemsOfPages(_)
ItemsOfPages(pages) ==
    IF pages = <<>> THEN <<>> ELSE Head(pages).items \o ItemsOfPages(Tail(pages))

\* The listing with the closed-beta sites taken out, as the sites it describes.
ListedSites(pages) ==
    LET all == ItemsOfPages(pages)
        keep == {i \in 1..Len(all) : all[i].site_state /= "closed_beta"}
        Nth(k) == CHOOSE i \in keep : Cardinality({j \in keep : j < i}) = k - 1
    IN  [k \in 1..Cardinality(keep) |-> ParseSite(all[Nth(k)])]

\* The dump of do_cache_sites has been completed.
SitesDumped == csproc.pc = "icons" \/ (csproc.pc = "done" /\ csproc.outcome = "ok")

\* C12: once do_cache_sites has written the Sites cache file, the file holds
\* exactly the sites of all the pages of the listing, in page order, without
\* the closed-beta sites, and no site of the previous content that the listing
\* lacks; the pages were requested as 1, 2, 3, ... with page size 100, and the
\* last page requested is the first one that reported has_more = false.
C12_RefreshReplaces ==
    SitesDumped =>
        /\ sites_file.exists
        /\ SitesWellFormed(sites_file.bytes)
        /\ DecodeSites(sites_file.bytes) = ListedSites(csproc.pages)
        /\ \A id \in csproc.pre_ids :
              (\A i \in 1..Len(ListedSites(csproc.pages)) :
                  ListedSites(csproc.pages)[i].id_ /= id)
              => id \notin CachedIds(sites_file.bytes)
        /\ csproc.requests =
              [i \in 1..Len(csproc.pages) |-> [page |-> i, pagesize |-> SitesPageSize]]
        /\ \A i \in 1..Len(csproc.pages) :
              /\ csproc.pages[i].kind = "ok"
              /\ csproc.pages[i].has_more <=> i < Len(csproc.pages)

\* A refresh of two pages over a cache that held the meta site: the listing has
\* a closed-beta site before the main site and no longer has the meta site.
C12_Witness ==
    /\ csproc.pc = "done"
    /\ csproc.outcome = "ok"
    /\ "meta.bc" \in csproc.pre_ids
    /\ Len(csproc.pages) = 2
    /\ csproc.pages[1].items = <<Beta, SO>>
    /\ csproc.pages[2].items = <<SO>>
    /\ DecodeSites(sites_file.bytes) = <<ParseSite(SO), ParseSite(SO)>>

\* C13: a do_sites invocation that finds the Sites cache file absent, or
\* holding an empty list, ends with the single "not yet collected" record;
\* whatever the age of the file, do_sites makes no remote call, starts no
\* refresh and writes neither the cache file nor an icon.
C13_SitesNeverFetch ==
    /\ [](siteproc.pc /= "idle" => siteproc.ncalls = 0 /\ csproc.pc = "idle")
    /\ [](siteproc.pc = "done"
            /\ (~sites_file.exists \/ sites_file.bytes = EncodeSites(<<>>))
          => /\ siteproc.out = <<NotCollectedItem>>
             /\ siteproc.outcome = "not_collected")
    /\ [][siteproc.pc /= "idle" => sites_file' = sites_file /\ icons' = icons]_vars

\* do_sites has ended on a cache file that holds the empty list and is as old
\* as cache_max_age or older.
C13_Witness ==
    /\ siteproc.pc = "done"
    /\ siteproc.outcome = "not_collected"
    /\ siteproc.existed
    /\ sites_file.bytes = EncodeSites(<<>>)
    /\ siteproc.age >= CacheMaxAge

\* The names of the sites, each once, at the place where it first occurs.
FirstOccurrenceNames(sites) ==
    LET first == {i \in 1..Len(sites) : \A j \in 1..(i - 1) : sites[j].name /= sites[i].name}
        Nth(k) == CHOOSE i \in first : Cardinality({j \in first : j < i}) = k - 1
    IN  [k \in 1..Cardinality(first) |-> sites[Nth(k)].name]

\* The cached list without its meta sites.
WithoutMeta(sites) ==
    LET keep == {i \in 1..Len(sites) : ~sites[i].is_meta}
        Nth(k) == CHOOSE i \in keep : Cardinality({j \in keep : j < i}) = k - 1
    IN  [k \in 1..Cardinality(keep) |-> sites[Nth(k)]]

\* do_sites is past its filtering and has not failed.
PastSitesFilter ==
    siteproc.pc = "emit" \/ (siteproc.pc = "done" /\ siteproc.outcome = "ok")

\* C14: in do_sites with a non-empty cached list, the meta sites are removed
\* first when ignore_meta_sites is set; with an empty query fzf is not called
\* and the output is the whole meta-adjusted list in cache order; with a query
\* the candidates of fzf are the names of the meta-adjusted list, each once in
\* first-occurrence order, and the output holds only sites of that list whose
\* names fzf returned, in the order fzf returned them.  With ignore_meta_sites
\* no meta site is in the output.
C14_SitesFiltering ==
    PastSitesFilter =>
        LET adjusted == IF siteproc.ignore_meta_sites
                        THEN WithoutMeta(siteproc.loaded) ELSE siteproc.loaded
        IN  /\ siteproc.loaded /= <<>>
            /\ IF siteproc.query = <<>>
               THEN siteproc.nfzf = 0 /\ siteproc.sites = adjusted
               ELSE /\ siteproc.nfzf = 1
                    /\ siteproc.fzf.candidates = FirstOccurrenceNames(adjusted)
                    /\ SiteNames(siteproc.sites) = siteproc.fzf.lines
                    /\ ElementsOf(siteproc.sites) \subseteq ElementsOf(adjusted)
            /\ siteproc.ignore_meta_sites =>
                  \A i \in 1..Len(siteproc.sites) : ~siteproc.sites[i].is_meta
            /\ siteproc.outcome = "ok" =>
                  IF siteproc.sites = <<>>
                  THEN siteproc.out = <<NoMatchingSitesItem>>
                  ELSE /\ Len(siteproc.out) = Len(siteproc.sites)
                       /\ \A i \in 1..Len(siteproc.out) :
                             /\ siteproc.out[i].kind = "site"
                             /\ siteproc.out[i].what.site = siteproc.sites[i]

\* The cache lists the main site twice around the meta site; fzf returned the
\* two names in the opposite order of the cache.
C14_Witness ==
    /\ siteproc.pc = "done"
    /\ siteproc.outcome = "ok"
    /\ siteproc.query /= <<>>
    /\ Len(siteproc.loaded) = 3
    /\ SiteNames(siteproc.loaded) = <<"Stack Overflow", "B & C", "Stack Overflow">>
    /\ siteproc.fzf.candidates = <<"Stack Overflow", "B & C">>
    /\ siteproc.fzf.lines = <<"B & C", "Stack Overflow">>
    /\ Len(siteproc.out) = 2

(***************************************************************************)
(* Failures                                                                *)
(***************************************************************************)
\* A step of the search invocation has failed: the remote call or the parsing
\* of its response, the opening of the cache file for writing, the load of the
\* cache file, or fzf.
SearchFailed(p) ==
    \/ proc[p].reply.kind \in {"KeyError", "ConnectionError"}
    \/ proc[p].took = "fetch" /\ proc[p].reply.kind = "ok" /\ proc[p].wbuf = <<>>
    \/ proc[p].took = "load" /\ ~WellFormed(proc[p].read)
    \/ proc[p].fzf.kind = "CalledProcessError"

\* A step of the sites invocation has failed: the load of the cache file, or fzf.
SitesFailed ==
    \/ siteproc.existed /\ ~SitesWellFormed(sites_file.bytes)
    \/ siteproc.fzf.kind = "CalledProcessError"

\* The payload is one error record that cannot be actioned, and nothing else.
OnlyErrorRecord(out) ==
    /\ Len(out) = 1
    /\ out[1].kind = "error"
    /\ ~out[1].valid

\* The payload has no error record and one record per result, in their order.
CarriesResults(out, kind, results) ==
    LET OfKind(item) == item.kind = kind
        recs == SelectSeq(out, OfKind)
    IN  /\ out /= <<>>
        /\ \A i \in 1..Len(out) : out[i].kind /= "error"
        /\ Len(recs) = Len(results)
        /\ \A i \in 1..Len(recs) : recs[i].valid

\* C15: a search or sites invocation that runs to its end has printed one
\* payload and has not crashed; when a step of it failed (cache load, remote
\* call, response parsing, fzf, cache write) the payload is exactly one error
\* record that cannot be actioned; when none failed the payload carries the
\* results and no error record.
C15_FailureIsOneRecord ==
    /\ \A p \in AllProcs :
          proc[p].pc = "done" =>
              IF SearchFailed(p)
              THEN proc[p].outcome = "error" /\ OnlyErrorRecord(proc[p].out)
              ELSE /\ proc[p].outcome = "ok"
                   /\ CarriesResults(proc[p].out, "answer", proc[p].answers)
                   /\ \A i \in 1..Len(proc[p].answers) :
                         \E j \in 1..Len(proc[p].out) :
                             proc[p].out[j] = AnswerItem(proc[p].answers[i])
    /\ siteproc.pc = "done" =>
          IF SitesFailed
          THEN siteproc.outcome = "error" /\ OnlyErrorRecord(siteproc.out)
          ELSE /\ siteproc.outcome \in {"ok", "not_collected"}
               /\ CarriesResults(siteproc.out, "site", siteproc.sites)
               /\ \A i \in 1..Len(siteproc.sites) :
                     \E j \in 1..Len(siteproc.out) :
                         siteproc.out[j].kind = "site"
                         /\ siteproc.out[j].what.site = siteproc.sites[i]

\* A search ends in the error record because the cache file it loaded was cut
\* short, while the sites catalog has been collected.
C15_Witness ==
    /\ proc[1].pc = "done"
    /\ proc[1].took = "load"
    /\ ~WellFormed(proc[1].read)
    /\ OnlyErrorRecord(proc[1].out)
    /\ sites_file.exists
    /\ SitesWellFormed(sites_file.bytes)

\* C16: after the call of request_fzf in do_search or do_sites, which is made
\* at most once per invocation: when fzf succeeded the labels kept are the lines
\* of fzf in the order of fzf; when fzf exited with status 1 the list is empty
\* and the invocation does not end in the error outcome; on any other failure
\* the invocation ends at once in the error outcome, with the one error record.
C16_FzfOutcomes ==
    /\ \A p \in AllProcs :
          /\ proc[p].nfzf <= 1
          /\ proc[p].nfzf = 1 =>
                /\ proc[p].fzf.kind = "ok" =>
                      /\ proc[p].outcome /= "error"
                      /\ proc[p].filtered_titles = proc[p].fzf.lines
                      /\ Titles(proc[p].answers) = proc[p].fzf.lines
                /\ proc[p].fzf.kind = "no_match" =>
                      /\ proc[p].outcome /= "error"
                      /\ proc[p].answers = <<>>
                      /\ proc[p].pc = "done" =>
                            proc[p].out = Items(proc[p].quota_remaining, <<>>)
                /\ proc[p].fzf.kind = "CalledProcessError" =>
                      /\ proc[p].pc = "done"
                      /\ proc[p].outcome = "error"
                      /\ OnlyErrorRecord(proc[p].out)
    /\ siteproc.nfzf <= 1
    /\ siteproc.nfzf = 1 =>
          /\ siteproc.fzf.kind = "ok" =>
                /\ siteproc.outcome /= "error"
                /\ SiteNames(siteproc.sites) = siteproc.fzf.lines
          /\ siteproc.fzf.kind = "no_match" =>
                /\ siteproc.outcome /= "error"
                /\ siteproc.sites = <<>>
                /\ siteproc.pc = "done" => siteproc.out = <<NoMatchingSitesItem>>
          /\ siteproc.fzf.kind = "CalledProcessError" =>
                /\ siteproc.pc = "done"
                /\ siteproc.outcome = "error"
                /\ OnlyErrorRecord(siteproc.out)

\* A search whose answers fzf matched none of: the payload is the "no answer"
\* record, not the error record.
C16_Witness ==
    /\ proc[1].pc = "done"
    /\ proc[1].nfzf = 1
    /\ proc[1].fzf.kind = "no_match"
    /\ proc[1].pre /= <<>>
    /\ proc[1].outcome = "ok"
    /\ proc[1].out = <<NoAnswerItem>>

(***************************************************************************)
(* The life of a cache entry                                               *)
(***************************************************************************)
\* The invocation has made its freshness check and the cache file is still as
\* the check saw it.
Checked(p) == proc[p].pc = "fetch" \/ proc[p].took = "load"

\* The time of the freshness check of a checked invocation that found a file.
CheckTime(p) == files[proc[p].path].mtime + proc[p].age

\* The payload is the list in the cache file, sorted as it was stored,
\* narrowed by the invocation's own secondary filter and by nothing else.
ReturnsStored(p) ==
    LET list == DecodeAnswers(files[proc[p].path].bytes)
    IN  /\ list = SortAnswers(list)
        /\ proc[p].out =
              Items(UnlimitedQuota,
                    IF proc[p].additional_query = <<>> THEN list
                    ELSE Narrowed(list, proc[p].filtered_titles))

\* An invocation whose check comes before t + cache_max_age, t being the time
\* at which an invocation of the same search last stored its results: it loads,
\* makes no remote call, leaves the file as stored at t and returns its list.
LoadsWithinMaxAge(p) ==
    LET t == stored[SearchOf(p)]
    IN  CheckTime(p) < t + CacheMaxAge =>
            /\ proc[p].took = "load"
            /\ proc[p].ncalls = 0
            /\ files[proc[p].path].mtime = t
            /\ proc[p].pc = "done" /\ proc[p].outcome = "ok" => ReturnsStored(p)

\* An invocation whose check comes at t + cache_max_age or later fetches.
FetchesFromMaxAge(p) ==
    LET t == stored[SearchOf(p)]
    IN  CheckTime(p) >= t + CacheMaxAge => proc[p].took = "fetch"

\* C17, as stated: among search invocations that do not overlap, once an
\* invocation of a search (site_id, query, tags) has stored its results at
\* time t, a later invocation of the same search that checks before
\* t + cache_max_age loads (no remote call, no rewrite, the stored list narrowed
\* by its own filter), and one that checks at t + cache_max_age or later
\* fetches again.
C17_EntryLife ==
    \A p \in AllProcs :
        Checked(p) /\ stored[SearchOf(p)] /= NeverStored =>
            LoadsWithinMaxAge(p) /\ FetchesFromMaxAge(p)

\* The remote call of the search invocation failed.
SearchCallFailed(p) == proc[p].reply.kind \in {"KeyError", "ConnectionError"}

\* A page request of the catalog refresh failed.
PageFailed ==
    /\ csproc.pages /= <<>>
    /\ csproc.pages[Len(csproc.pages)].kind \in {"KeyError", "ConnectionError"}

\* C18: no step of a do_search that is about to call the server, or whose call
\* or response parsing failed, changes an Answers cache file (content, mtime
\* or absence), and no step of a do_cache_sites that is requesting pages, or
\* one of whose page requests or parses failed, changes the Sites cache file;
\* a cache file changes only in the dump of an invocation that holds the whole
\* parsed result of its remote call.
C18_FailedCallKeepsCache ==
    [][/\ \A p \in AllProcs :
             proc[p].pc \in {"check", "fetch"} \/ SearchCallFailed(p) => files' = files
       /\ files' /= files =>
             \E p \in AllProcs :
                 /\ proc[p].pc \in {"dump_open", "dump_write"}
                 /\ proc[p].reply.kind = "ok"
                 /\ proc[p].answers = SortAnswers(MapSeq(ParseItem, proc[p].reply.items))
                 /\ \A path \in Paths : path /= proc[p].path => files'[path] = files[path]
       /\ csproc.pc = "request" \/ PageFailed => sites_file' = sites_file
       /\ sites_file' /= sites_file =>
             /\ csproc.pc \in {"dump_open", "dump_write"}
             /\ \A i \in 1..Len(csproc.pages) : csproc.pages[i].kind = "ok"
             /\ ~csproc.pages[Len(csproc.pages)].has_more
             /\ csproc.sites = ListedSites(csproc.pages)]_vars

\* The second page request of a refresh failed after the first page had been
\* parsed: the cache file still holds the sites it held before.
C18_Witness ==
    /\ csproc.pc = "done"
    /\ csproc.outcome = "crash"
    /\ Len(csproc.pages) = 2
    /\ csproc.pages[1].items = <<SO>>
    /\ PageFailed
    /\ SitesWellFormed(sites_file.bytes)
    /\ SiteNames(DecodeSites(sites_file.bytes)) = <<"B & C">>
    /\ csproc.pre_ids = {"meta.bc"}

====
